---- MODULE Spec2Model ----
(***************************************************************************)
(* service-webman: the task handlers of package service (execute and       *)
(* batchExecute), the goroutines they start (doPOSTRequest) and the        *)
(* response channel that joins them; the webhook server of package webman  *)
(* with the handler of its calls; and the life of Service.Start.           *)
(***************************************************************************)
EXTENDS Integers, Sequences, FiniteSets, TLC

\* ------------------------------------------------------------------ bounds
\* Relay requests carried by the task inputs of one behaviour together.
MaxReqs == 3
\* Handler invocations a behaviour can hold (the identifiers 1..MaxTasks);
\* Init starts one of them.
MaxTasks == 2

TaskIds == 1..MaxTasks

\* ------------------------------------------------------------- environment
URLs == {"http://a", "http://b"}
ReqBodies == {"payload"}
\* Go's nil error and nil interface{}.
NoErr == "nil"
Nil == "null"

\* type httpRequest struct { URL string; Body interface{} }
httpRequest == [URL : URLs, Body : ReqBodies]

\* What w.client.Post may come back with: an error (no connection, or the
\* client's timeout), or a response with its status and the text of its body.
RoundTripResults ==
    { [err |-> "context deadline exceeded", StatusCode |-> 0, Body |-> ""],
      [err |-> NoErr, StatusCode |-> 200, Body |-> "<html>"],
      [err |-> NoErr, StatusCode |-> 200, Body |-> "\"x\""],
      [err |-> NoErr, StatusCode |-> 500, Body |-> "\"y\" "] }

\* json.Marshal(data): a request body is a decoded JSON value and encodes.
Marshal(data) == [err |-> NoErr, bytes |-> "\"" \o data \o "\""]

\* json.NewDecoder(resp.Body).Decode(out) on the response bodies above.
DecodeBody(text) ==
    CASE text = "\"x\""  -> [err |-> NoErr, val |-> "x"]
      [] text = "\"y\" " -> [err |-> NoErr, val |-> "y"]
      [] OTHER           -> [err |-> "invalid character", val |-> Nil]

\* The calls of w.client.Post one Webman.Post makes.
ClientPosts(data) == IF Marshal(data).err # NoErr THEN 0 ELSE 1

\* Webman.Post(url, data, out), given what the round trip comes back with:
\* (statusCode, err) and the value decoded into out.  A failed marshal or a
\* failed round trip returns status 0; a response whose body does not decode
\* returns the status together with the decoder's error; any received status,
\* 2xx or not, comes with a nil error.
Post(data, rt) ==
    IF Marshal(data).err # NoErr
    THEN [statusCode |-> 0, err |-> Marshal(data).err, out |-> Nil]
    ELSE IF rt.err # NoErr
    THEN [statusCode |-> 0, err |-> rt.err, out |-> Nil]
    ELSE [statusCode |-> rt.StatusCode,
          err        |-> DecodeBody(rt.Body).err,
          out        |-> DecodeBody(rt.Body).val]

\* What Application.Post may hand back.
PostResults == {Post(b, rt) : b \in ReqBodies, rt \in RoundTripResults}

\* What req.Reply may return.
ReplyErrs == {NoErr, "reply failed"}

\* ------------------------------------------------- webhook and service
\* Calls the webhook server receives in one behaviour.
MaxCalls == 2

\* The goroutines of the service, the callers of the Webman lifecycle
\* methods, and those running Service.Close.
Callers == {"caller1", "caller2"}
Closers == {"Start", "main"}
Procs == {"startWebhook", "listenTasks"} \cup Callers \cup Closers

\* Bodies of the calls the webhook receives.
WebhookBodies == {"{\"body\":\"test\"}", "7 trailing", "not json", ""}
\* json.NewDecoder(req.Body).Decode(&out): the first JSON value of the body,
\* or the decoder's error when the body does not begin with one.  Decoded
\* values are written as Go prints them.
DecodeRequest(text) ==
    CASE text = "{\"body\":\"test\"}" -> [err |-> NoErr, val |-> "map[body:test]"]
      [] text = "7 trailing"          -> [err |-> NoErr, val |-> "7"]
      [] text = ""                    -> [err |-> "EOF", val |-> Nil]
      [] OTHER -> [err |-> "invalid character", val |-> Nil]

\* What EmitEvent, net.Listen and ListenTasks may return.
EmitErrs == {NoErr, "emit failed"}
BindErrs == {NoErr, "address already in use"}
ListenErrs == {"connection lost"}
\* time.Now().Unix() when a call is handled.
UnixTimes == {1541376000}
\* errors.New("json data payload expected")
PayloadError == "json data payload expected"
\* json.Marshal(errorResponse{errorResponseMessage{msg}})
MarshalError(msg) == "{\"error\":{\"message\":\"" \o msg \o "\"}}"
\* http.StatusBadRequest and http.StatusAccepted.
StatusBadRequest == 400
StatusAccepted == 202

\* ------------------------------------------------------------------- state
VARIABLES
    task,       \* task[t]: the TaskData behind req (task key, input data)
    pc,         \* pc[t]: where handler t stands (handler.go 39-117)
    gor,        \* gor[t]: the doPOSTRequest activations of handler t (119-131)
    responseC,  \* responseC[t]: what handler t's response channel buffers (51, 84)
    resp,       \* resp[t]: the response executeHandler received (53)
    hresp,      \* hresp[t]: the httpBatchResponse being assembled (90-95)
    i,          \* i[t]: the counter of the collecting loop (98)
    replies,    \* replies[t]: the calls of req.Reply made by handler t
    logged,     \* logged[t]: lines written by log.Printf in handler t
    recvd,      \* recvd[t]: activations in the order their outcome was received
    wm,         \* the Webman: webhook, webhook.server and the lock mw (webman.go 18-26)
    srv,        \* the graceful.Server behind webhook.server (webman.go 93-99, 106)
    th,         \* th[p]: where goroutine p stands and what its call returned
    hook,       \* hook[c]: call c of the webhook, from arrival to response
    events,     \* the calls of EmitEvent made, in order
    svc,        \* the Service: runtime connection, errors Start received, Close steps
    obs         \* what happened: faults, writes of the lifecycle fields, log lines

hvars == <<task, pc, gor, responseC, resp, hresp, i, replies, logged, recvd>>
webvars == <<wm, srv, th, hook, events, svc, obs>>
vars == <<task, pc, gor, responseC, resp, hresp, i, replies, logged, recvd,
          wm, srv, th, hook, events, svc, obs>>

\* ----------------------------------------------------------- pure helpers
Digit(d) ==
    CASE d = 0 -> "0" [] d = 1 -> "1" [] d = 2 -> "2" [] d = 3 -> "3"
      [] d = 4 -> "4" [] d = 5 -> "5" [] d = 6 -> "6" [] d = 7 -> "7"
      [] d = 8 -> "8" [] d = 9 -> "9"

RECURSIVE Sprintf_d(_)
\* fmt.Sprintf("%d", n)
Sprintf_d(n) ==
    IF n < 0 THEN "-" \o Sprintf_d(0 - n)
    ELSE IF n < 10 THEN Digit(n)
    ELSE Sprintf_d(n \div 10) \o Digit(n % 10)

\* A Go map as a function on the set of its keys.
EmptyMap == [k \in {} |-> Nil]
MapDel(m, k) == [x \in (DOMAIN m) \ {k} |-> m[x]]
MapSet(m, k, v) == [x \in (DOMAIN m) \cup {k} |-> IF x = k THEN v ELSE m[x]]

\* req.Get(&hreq): decoding the task's input data.
Get(data) ==
    IF data.json THEN [err |-> NoErr, Batch |-> data.Batch]
    ELSE [err |-> "invalid character", Batch |-> <<>>]

\* The decoded input of handler t (hreq; for execute a single request).
hreq(t) == Get(task[t].InputData)

\* resp := response{URL: hreq.URL}
response(url) == [URL |-> url, StatusCode |-> "", Body |-> Nil, Error |-> NoErr]

\* A variant of doPOSTRequest_resp that tests the status instead of err.
doPOSTRequest_resp_byStatus(url, r) ==
    IF r.statusCode = 0
    THEN [response(url) EXCEPT !.Body = r.out, !.Error = r.err]
    ELSE [response(url) EXCEPT !.Body = r.out,
                               !.StatusCode = Sprintf_d(r.statusCode)]

\* A variant of doPOSTRequest_resp that formats the status before it tests err.
doPOSTRequest_resp_statusFirst(url, r) ==
    IF r.err # NoErr
    THEN [response(url) EXCEPT !.Body = r.out, !.Error = r.err,
                               !.StatusCode = Sprintf_d(r.statusCode)]
    ELSE [response(url) EXCEPT !.Body = r.out,
                               !.StatusCode = Sprintf_d(r.statusCode)]

\* The response doPOSTRequest builds from what Post returned.
doPOSTRequest_resp(url, r) ==
    IF r.err # NoErr
    THEN [response(url) EXCEPT !.Body = r.out, !.Error = r.err]
    ELSE [response(url) EXCEPT !.Body = r.out,
                               !.StatusCode = Sprintf_d(r.statusCode)]

\* make(chan response, 1) in executeHandler, make(chan response, 0) in
\* batchExecuteHandler.
batchCap == 0
\* A variant of executeCap: executeHandler on an unbuffered channel.
executeCap_unbuffered == batchCap
executeCap == 1
Cap(t) == IF task[t].TaskKey = "execute" THEN executeCap ELSE batchCap

\* A variant of AfterPost whose error branch returns without sending.
AfterPost_silentOnError(r) == IF r.err # NoErr THEN "done" ELSE "send"

\* A variant of AfterPost that calls Post again after an error.
AfterPost_retryOnError(r) == IF r.err # NoErr THEN "start" ELSE "send"

\* doPOSTRequest after Post returned r: on either branch it sends resp on
\* responseC before it returns.
AfterPost(r) == "send"

\* A variant of totalReqs that counts one request too few.
totalReqs_short(t) == Len(hreq(t).Batch) - 1

\* totalReqs := len(hreq.Batch)
totalReqs(t) == Len(hreq(t).Batch)

\* A variant of AfterRecv whose loop test is i <= totalReqs.
AfterRecv_inclusive(n, total) == IF n <= total THEN "recv" ELSE "reply"

\* The collecting loop's test, i < totalReqs, and where the handler goes.
AfterRecv(n, total) == IF n < total THEN "recv" ELSE "reply"

\* Variants of Record: errors not recorded; a URL kept in one map only; the
\* first entry of a URL kept.
Record_dropError(h, r) ==
    IF r.Error # NoErr
    THEN h
    ELSE [h EXCEPT !.Successes =
            MapSet(@, r.URL, [StatusCode |-> r.StatusCode, Body |-> r.Body])]

Record_exclusive(h, r) ==
    IF r.Error # NoErr
    THEN [h EXCEPT !.Errors = MapSet(@, r.URL, [Message |-> r.Error]),
                   !.Successes = MapDel(@, r.URL)]
    ELSE [h EXCEPT !.Successes =
            MapSet(@, r.URL, [StatusCode |-> r.StatusCode, Body |-> r.Body]),
                   !.Errors = MapDel(@, r.URL)]

Record_firstWins(h, r) ==
    IF r.Error # NoErr
    THEN [h EXCEPT !.Errors =
            IF r.URL \in DOMAIN @ THEN @ ELSE MapSet(@, r.URL, [Message |-> r.Error])]
    ELSE [h EXCEPT !.Successes =
            IF r.URL \in DOMAIN @ THEN @
            ELSE MapSet(@, r.URL, [StatusCode |-> r.StatusCode, Body |-> r.Body])]

\* The body of the collecting loop: one outcome recorded in hresp.
Record(h, r) ==
    IF r.Error # NoErr
    THEN [h EXCEPT !.Errors = MapSet(@, r.URL, [Message |-> r.Error])]
    ELSE [h EXCEPT !.Successes =
            MapSet(@, r.URL, [StatusCode |-> r.StatusCode, Body |-> r.Body])]

\* The reply executeHandler sends, by the path it took.
executeReply(t) ==
    IF hreq(t).err # NoErr
    THEN [key  |-> "error",
          data |-> [Message |-> "err while decoding input data: " \o hreq(t).err]]
    ELSE IF resp[t].Error # NoErr
    THEN [key  |-> "error",
          data |-> [Message |->
                    "err while performing the post request: " \o resp[t].Error]]
    ELSE [key  |-> "success",
          data |-> [StatusCode |-> resp[t].StatusCode, Body |-> resp[t].Body]]

\* A variant of batchReply that does not test the error of req.Get.
batchReply_unchecked(t) == [key |-> "batch", data |-> [Batch |-> hresp[t]]]

\* The reply batchExecuteHandler sends, by the path it took.
batchReply(t) ==
    IF hreq(t).err # NoErr
    THEN [key  |-> "error",
          data |-> [Message |->
                    "err while decoding batch input data: " \o hreq(t).err]]
    ELSE [key |-> "batch", data |-> [Batch |-> hresp[t]]]

\* A variant of ReplyAttempts that calls Reply again after a failure.
ReplyAttempts_retry(err) == IF err # NoErr THEN 2 ELSE 1

\* How often a handler calls req.Reply when the call returned err.
ReplyAttempts(err) == 1

\* ------------------------------------------------------------------- Init
RECURSIVE SeqsUpTo(_, _)
SeqsUpTo(S, n) ==
    IF n = 0 THEN {<<>>}
    ELSE LET shorter == SeqsUpTo(S, n - 1)
         IN  shorter \cup {Append(s, x) : s \in {q \in shorter : Len(q) = n - 1},
                                          x \in S}

Malformed == [json |-> FALSE, Batch |-> <<>>]

TaskData ==
    { [TaskKey |-> "execute", InputData |-> Malformed],
      [TaskKey |-> "batchExecute", InputData |-> Malformed] }
    \cup { [TaskKey |-> "execute", InputData |-> [json |-> TRUE, Batch |-> <<q>>]]
           : q \in httpRequest }
    \cup { [TaskKey |-> "batchExecute", InputData |-> [json |-> TRUE, Batch |-> b]]
           : b \in SeqsUpTo(httpRequest, MaxReqs) }

RECURSIVE SumReqs(_, _)
SumReqs(f, n) == IF n = 0 THEN 0 ELSE Len(f[n].InputData.Batch) + SumReqs(f, n - 1)

\* A Webman and a Service just constructed: no webhook, the lock free, the
\* server not made, no goroutine started, nothing received.
WebInit ==
    /\ wm = [webhook |-> "nil", server |-> "nil", published |-> TRUE,
             writer |-> "none", readers |-> {}]
    /\ srv = [state |-> "new", interrupt |-> FALSE, stopChan |-> "open",
              how |-> "none"]
    /\ th = [p \in Procs |-> [pc |-> "idle", ret |-> NoErr]]
    /\ hook = <<>>
    /\ events = <<>>
    /\ svc = [mesg |-> "open", recvd |-> <<>>, closes |-> <<>>]
    /\ obs = [fault |-> "none", writes |-> {}, partial |-> FALSE, starts |-> 0,
              logged |-> 0]

\* n task invocations, each handler about to run, nothing started yet.
InitOf(n) ==
    /\ WebInit
    /\ task \in {f \in [1..n -> TaskData] : SumReqs(f, n) <= MaxReqs}
    /\ pc = [t \in 1..n |-> "get"]
    /\ gor = [t \in 1..n |-> <<>>]
    /\ responseC = [t \in 1..n |-> <<>>]
    /\ resp = [t \in 1..n |-> response("")]
    /\ hresp = [t \in 1..n |-> [Successes |-> EmptyMap, Errors |-> EmptyMap]]
    /\ i = [t \in 1..n |-> 0]
    /\ replies = [t \in 1..n |-> <<>>]
    /\ logged = [t \in 1..n |-> 0]
    /\ recvd = [t \in 1..n |-> <<>>]

\* One invocation of a task handler.
Init == InitOf(1)

\* ---------------------------------------------------------------- actions
\* go s.doPOSTRequest(hreq, responseC): a fresh activation.
\* calls and ret keep what was passed to Post and what it returned, trips
\* counts the round trips made, to is the handler that received the outcome.
NewGor(q) ==
    [pc |-> "start", hreq |-> q, resp |-> response(q.URL), calls |-> <<>>,
     ret |-> <<>>, trips |-> 0, to |-> 0]

\* req.Get at the head of either handler, and the branch taken on its result.
Decode(t) ==
    /\ t \in DOMAIN task
    /\ pc[t] = "get"
    /\ IF hreq(t).err # NoErr
       THEN /\ pc' = [pc EXCEPT ![t] = "reply"]
            /\ gor' = gor
       ELSE IF task[t].TaskKey = "execute"
       THEN /\ pc' = [pc EXCEPT ![t] = "call"]
            /\ gor' = [gor EXCEPT ![t] = <<NewGor(hreq(t).Batch[1])>>]
       ELSE /\ pc' = [pc EXCEPT ![t] =
                        IF Len(hreq(t).Batch) = 0
                        THEN AfterRecv(0, totalReqs(t)) ELSE "launch"]
            /\ gor' = gor
    /\ UNCHANGED <<task, responseC, resp, hresp, i, replies, logged, recvd>>
    /\ UNCHANGED webvars

\* One turn of: for _, hreq := range hreq.Batch { go s.doPOSTRequest(...) }
Launch(t) ==
    /\ t \in DOMAIN task
    /\ pc[t] = "launch"
    /\ LET k == Len(gor[t]) + 1
       IN  /\ k <= Len(hreq(t).Batch)
           /\ gor' = [gor EXCEPT ![t] = Append(@, NewGor(hreq(t).Batch[k]))]
           /\ pc' = [pc EXCEPT ![t] =
                       IF k = Len(hreq(t).Batch)
                       THEN AfterRecv(0, totalReqs(t)) ELSE "launch"]
    /\ UNCHANGED <<task, responseC, resp, hresp, i, replies, logged, recvd>>
    /\ UNCHANGED webvars

\* A variant of PostAdmitted that lets one call of a batch run at a time.
PostAdmitted_oneAtATime(t, g) ==
    \A h \in DOMAIN gor[t] : h # g => gor[t][h].pc # "post"

\* Whether activation g may enter Post: the launch loop starts a goroutine per
\* request and nothing makes one wait for another.
PostAdmitted(t, g) == TRUE

\* doPOSTRequest enters s.webman.Post(hreq.URL, hreq.Body, &resp.Body).
PostCall(t, g) ==
    /\ t \in DOMAIN task
    /\ g \in DOMAIN gor[t]
    /\ gor[t][g].pc = "start"
    /\ PostAdmitted(t, g)
    /\ gor' = [gor EXCEPT ![t][g].pc = "post",
                          ![t][g].calls = Append(@, [url  |-> gor[t][g].hreq.URL,
                                                     data |-> gor[t][g].hreq.Body])]
    /\ UNCHANGED <<task, pc, responseC, resp, hresp, i, replies, logged, recvd>>
    /\ UNCHANGED webvars

\* Post returns; doPOSTRequest fills resp and reaches responseC <- resp.
PostReturn(t, g) ==
    /\ t \in DOMAIN task
    /\ g \in DOMAIN gor[t]
    /\ gor[t][g].pc = "post"
    /\ \E rt \in RoundTripResults :
          LET r == Post(gor[t][g].hreq.Body, rt)
          IN  gor' = [gor EXCEPT ![t][g].pc = AfterPost(r),
                                 ![t][g].ret = Append(@, r),
                                 ![t][g].trips = @ + ClientPosts(gor[t][g].hreq.Body),
                                 ![t][g].resp = doPOSTRequest_resp(gor[t][g].hreq.URL, r)]
    /\ UNCHANGED <<task, pc, responseC, resp, hresp, i, replies, logged, recvd>>
    /\ UNCHANGED webvars

\* A variant of ChanOf with one channel for all invocations.
ChanOf_shared(t) == 1

\* The handler whose channel the activations of handler t send on: each
\* invocation makes its own responseC and passes it to the calls it starts.
ChanOf(t) == t

\* What the handler does with a received response.
Receive(t, g, r) ==
    /\ recvd' = [recvd EXCEPT ![t] = Append(@, g)]
    /\ IF task[t].TaskKey = "execute"
       THEN /\ resp' = [resp EXCEPT ![t] = r]
            /\ pc' = [pc EXCEPT ![t] = "reply"]
            /\ UNCHANGED <<hresp, i>>
       ELSE /\ hresp' = [hresp EXCEPT ![t] = Record(@, r)]
            /\ i' = [i EXCEPT ![t] = @ + 1]
            /\ pc' = [pc EXCEPT ![t] = AfterRecv(i[t] + 1, totalReqs(t))]
            /\ UNCHANGED resp

\* responseC <- resp with room in the buffer.  In executeHandler the send is
\* the last statement of the inline call, which then returns to the handler.
SendBuffered(t, g) ==
    /\ t \in DOMAIN task
    /\ g \in DOMAIN gor[t]
    /\ gor[t][g].pc = "send"
    /\ Len(responseC[ChanOf(t)]) < Cap(t)
    /\ responseC' = [responseC EXCEPT ![ChanOf(t)] =
                        Append(@, [from |-> g, resp |-> gor[t][g].resp])]
    /\ gor' = [gor EXCEPT ![t][g].pc = "done", ![t][g].to = ChanOf(t)]
    /\ pc' = [pc EXCEPT ![t] = IF pc[t] = "call" THEN "recv" ELSE @]
    /\ UNCHANGED <<task, resp, hresp, i, replies, logged, recvd>>
    /\ UNCHANGED webvars

\* resp := <-responseC with a buffered element.
RecvBuffered(t) ==
    /\ t \in DOMAIN task
    /\ pc[t] = "recv"
    /\ Len(responseC[t]) > 0
    /\ responseC' = [responseC EXCEPT ![t] = Tail(@)]
    /\ Receive(t, Head(responseC[t]).from, Head(responseC[t]).resp)
    /\ UNCHANGED <<task, gor, replies, logged>>
    /\ UNCHANGED webvars

\* responseC <- resp meeting resp := <-responseC: the hand-over of a channel
\* with nothing buffered, sender and receiver both at the channel.
Handover(t, g) ==
    /\ t \in DOMAIN task
    /\ g \in DOMAIN gor[t]
    /\ gor[t][g].pc = "send"
    /\ pc[ChanOf(t)] = "recv"
    /\ Len(responseC[ChanOf(t)]) = 0
    /\ gor' = [gor EXCEPT ![t][g].pc = "done", ![t][g].to = ChanOf(t)]
    /\ Receive(ChanOf(t), g, gor[t][g].resp)
    /\ UNCHANGED <<task, responseC, replies, logged>>
    /\ UNCHANGED webvars

\* req.Reply(key, data), once, and log.Printf when it returns an error.
ReplyOf(t) == IF task[t].TaskKey = "execute" THEN executeReply(t) ELSE batchReply(t)

Reply(t) ==
    /\ t \in DOMAIN task
    /\ pc[t] = "reply"
    /\ \E err \in ReplyErrs :
          /\ replies' = [replies EXCEPT ![t] =
                @ \o [n \in 1..ReplyAttempts(err) |-> ReplyOf(t) @@ [err |-> err]]]
          /\ logged' = [logged EXCEPT ![t] = IF err # NoErr THEN @ + 1 ELSE @]
    /\ pc' = [pc EXCEPT ![t] = "done"]
    /\ UNCHANGED <<task, gor, responseC, resp, hresp, i, recvd>>
    /\ UNCHANGED webvars

Next ==
    \E t \in TaskIds :
        \/ Decode(t)
        \/ Launch(t)
        \/ RecvBuffered(t)
        \/ Reply(t)
        \/ \E g \in 1..MaxReqs :
              \/ PostCall(t, g)
              \/ PostReturn(t, g)
              \/ SendBuffered(t, g)
              \/ Handover(t, g)

Spec == Init /\ [][Next]_vars

\* Every goroutine that can run is eventually run, and every Post call
\* returns (http.Client.Timeout bounds it).
LiveSpec == Init /\ [][Next]_vars /\ WF_vars(Next)

\* The steps of handler t, and the steps of activation g of handler t other
\* than the return of its Post call.
HandlerStep(t) == Decode(t) \/ Launch(t) \/ RecvBuffered(t) \/ Reply(t)
CallStep(t, g) == PostCall(t, g) \/ SendBuffered(t, g) \/ Handover(t, g)

\* Every goroutine that can run is eventually run and every Post call returns,
\* except the Post call of the first request, which may stay out for ever.
HangSpec ==
    /\ Init /\ [][Next]_vars
    /\ \A t \in TaskIds :
          /\ WF_vars(HandlerStep(t))
          /\ \A g \in 1..MaxReqs :
                /\ WF_vars(CallStep(t, g))
                /\ WF_vars(g # 1 /\ PostReturn(t, g))

\* Two task invocations handled at the same time, as listenTasks runs a
\* handler per received task.
ConcSpec == InitOf(2) /\ [][Next]_vars

\* ------------------------------------------------- webhook server actions
\* A nil dereference ends the process: no goroutine runs after it.
Running == obs.fault = "none"

\* The listen address given to StartWebhook.
ListenAddr == ":4000"

\* What a read of w.webhook may find.  The write of line 86 is made without
\* the lock: until the writer next releases the lock nothing orders it before
\* a read made under RLock, which may find the old or the new value.
Visible ==
    IF wm.webhook = "set" /\ ~wm.published THEN {"nil", "set"} ELSE {wm.webhook}

\* Where a goroutine stands when it may call a lifecycle method: a caller at
\* rest, or Close at its first statement.
AtCall(p) == th[p].pc = IF p \in Callers THEN "idle" ELSE "close"
\* Where it goes on when ShutdownWebhook returns: Close continues with
\* s.mesgService.Close().
AfterShutdown(p) == IF p \in Closers THEN "mesgClose" ELSE "done"

\* A variant of Reports that sends whatever was returned.
Reports_always(err) == TRUE

\* if err := ...; err != nil { s.errC <- err }
Reports(err) == err # NoErr

\* A variant of StopChanClosed that does not wait for the server.
StopChanClosed_noWait(s) == TRUE

\* <-w.webhook.server.StopChan() can proceed: the channel is closed.
StopChanClosed(s) == s.stopChan = "closed"

\* go w.StartWebhook(endpoint, addr, fn), as the callers of package webman do.
CallStartWebhook ==
    /\ Running
    /\ th["startWebhook"].pc = "idle"
    /\ th' = [th EXCEPT !["startWebhook"].pc = "sw86"]
    /\ obs' = [obs EXCEPT !.starts = @ + 1]
    /\ UNCHANGED <<wm, srv, hook, events, svc>>
    /\ UNCHANGED hvars

\* w.webhook = &Webhook{webman: w, fn: fn}; then the router and the server
\* value are built in locals.
SetWebhook ==
    /\ Running
    /\ th["startWebhook"].pc = "sw86"
    /\ wm' = [wm EXCEPT !.webhook = "set", !.server = "nil", !.published = FALSE]
    /\ obs' = [obs EXCEPT !.writes = @ \cup
                  {[field |-> "webhook", locked |-> wm.writer = "startWebhook"]}]
    /\ th' = [th EXCEPT !["startWebhook"].pc = "sw101"]
    /\ UNCHANGED <<srv, hook, events, svc>>
    /\ UNCHANGED hvars

\* w.mw.Lock()
LockMw ==
    /\ Running
    /\ th["startWebhook"].pc = "sw101"
    /\ wm.writer = "none" /\ wm.readers = {}
    /\ wm' = [wm EXCEPT !.writer = "startWebhook"]
    /\ th' = [th EXCEPT !["startWebhook"].pc = "sw102"]
    /\ UNCHANGED <<srv, hook, events, svc, obs>>
    /\ UNCHANGED hvars

\* w.webhook.server = server
SetServer ==
    /\ Running
    /\ th["startWebhook"].pc = "sw102"
    /\ wm' = [wm EXCEPT !.server = "set"]
    /\ obs' = [obs EXCEPT !.writes = @ \cup
                  {[field |-> "server", locked |-> wm.writer = "startWebhook"]}]
    /\ th' = [th EXCEPT !["startWebhook"].pc = "sw103"]
    /\ UNCHANGED <<srv, hook, events, svc>>
    /\ UNCHANGED hvars

\* w.mw.Unlock(), and the log line that follows.
UnlockMw ==
    /\ Running
    /\ th["startWebhook"].pc = "sw103"
    /\ wm' = [wm EXCEPT !.writer = "none", !.published = TRUE]
    /\ th' = [th EXCEPT !["startWebhook"].pc = "sw106"]
    /\ UNCHANGED <<srv, hook, events, svc, obs>>
    /\ UNCHANGED hvars

\* w.webhook.server.ListenAndServe() binds the address: on failure it returns
\* the error at once, without serving; otherwise it serves until stopped.
ListenAndServe ==
    /\ Running
    /\ th["startWebhook"].pc = "sw106"
    /\ \E err \in BindErrs :
          IF err # NoErr
          THEN /\ srv' = [srv EXCEPT !.state = "failed"]
               /\ th' = [th EXCEPT !["startWebhook"] = [pc |-> "swret", ret |-> err]]
          ELSE /\ srv' = [srv EXCEPT !.state = "listening"]
               /\ th' = [th EXCEPT !["startWebhook"].pc = "serving"]
    /\ UNCHANGED <<wm, hook, events, svc, obs>>
    /\ UNCHANGED hvars

\* The serving server takes the interrupt Stop left for it and closes its
\* listener: no new connection is accepted.
HandleInterrupt ==
    /\ Running
    /\ srv.state = "listening" /\ srv.interrupt
    /\ srv' = [srv EXCEPT !.state = "stopping", !.interrupt = FALSE]
    /\ UNCHANGED <<wm, th, hook, events, svc, obs>>
    /\ UNCHANGED hvars

\* Every call of the webhook has been answered.
Drained == \A c \in DOMAIN hook : hook[c].pc = "done"

\* The stopping server has no open connection left, or the grace period
\* (Timeout) has elapsed and the connections left are closed; it closes the
\* channel of StopChan.
Stopped ==
    /\ Running
    /\ srv.state = "stopping"
    /\ srv' = [srv EXCEPT !.state = "stopped", !.stopChan = "closed",
                          !.how = IF Drained THEN "drained" ELSE "timeout"]
    /\ hook' = [c \in DOMAIN hook |->
                  IF hook[c].pc = "done" THEN hook[c]
                  ELSE [hook[c] EXCEPT !.conn = "closed"]]
    /\ UNCHANGED <<wm, th, events, svc, obs>>
    /\ UNCHANGED hvars

\* ListenAndServe returns nil once the server it served has stopped, and
\* StartWebhook returns what it returned.
ServeReturn ==
    /\ Running
    /\ th["startWebhook"].pc = "serving"
    /\ srv.state = "stopped"
    /\ th' = [th EXCEPT !["startWebhook"] = [pc |-> "swret", ret |-> NoErr]]
    /\ UNCHANGED <<wm, srv, hook, events, svc, obs>>
    /\ UNCHANGED hvars

\* WebhookAddr: w.mw.RLock().
WebhookAddrEnter(p) ==
    /\ Running
    /\ p \in Callers /\ AtCall(p)
    /\ wm.writer = "none"
    /\ wm' = [wm EXCEPT !.readers = @ \cup {p}]
    /\ th' = [th EXCEPT ![p].pc = "wa139"]
    /\ UNCHANGED <<srv, hook, events, svc, obs>>
    /\ UNCHANGED hvars

\* WebhookAddr: if w.webhook.server != nil { return w.webhook.server.Addr };
\* return "" -- with the deferred RUnlock.  Reading server of a nil webhook
\* is a nil dereference.
WebhookAddr(p) ==
    /\ Running
    /\ th[p].pc = "wa139"
    /\ \E seen \in Visible :
          IF seen = "nil"
          THEN /\ obs' = [obs EXCEPT !.fault = "WebhookAddr: nil webhook"]
               /\ UNCHANGED <<wm, th>>
          ELSE /\ obs' = [obs EXCEPT !.partial = @ \/ wm.server = "nil"]
               /\ wm' = [wm EXCEPT !.readers = @ \ {p}]
               /\ th' = [th EXCEPT ![p] =
                           [pc  |-> "done",
                            ret |-> IF wm.server # "nil" THEN ListenAddr ELSE ""]]
    /\ UNCHANGED <<srv, hook, events, svc>>
    /\ UNCHANGED hvars

\* ShutdownWebhook: w.mw.RLock().
ShutdownWebhookEnter(p) ==
    /\ Running
    /\ AtCall(p)
    /\ wm.writer = "none"
    /\ wm' = [wm EXCEPT !.readers = @ \cup {p}]
    /\ th' = [th EXCEPT ![p].pc = "sd149"]
    /\ svc' = [svc EXCEPT !.closes =
                 IF p \in Closers THEN Append(@, <<p, "ShutdownWebhook">>) ELSE @]
    /\ UNCHANGED <<srv, hook, events, obs>>
    /\ UNCHANGED hvars

\* ShutdownWebhook: if w.webhook != nil { w.webhook.server.Stop(w.timeout) ...
\* Stop leaves an interrupt for the server (a send that never blocks); on a
\* nil server it is a nil dereference.  With a nil webhook the method returns.
ShutdownWebhook(p) ==
    /\ Running
    /\ th[p].pc = "sd149"
    /\ \E seen \in Visible :
          IF seen = "nil"
          THEN /\ wm' = [wm EXCEPT !.readers = @ \ {p}]
               /\ th' = [th EXCEPT ![p] = [pc |-> AfterShutdown(p), ret |-> "no webhook"]]
               /\ UNCHANGED <<srv, obs>>
          ELSE IF wm.server = "nil"
          THEN /\ obs' = [obs EXCEPT !.fault = "ShutdownWebhook: nil server",
                                     !.partial = TRUE]
               /\ UNCHANGED <<wm, srv, th>>
          ELSE /\ srv' = [srv EXCEPT !.interrupt = TRUE]
               /\ th' = [th EXCEPT ![p].pc = "sd151"]
               /\ UNCHANGED <<wm, obs>>
    /\ UNCHANGED <<hook, events, svc>>
    /\ UNCHANGED hvars

\* ShutdownWebhook: <-w.webhook.server.StopChan(), then the deferred RUnlock.
ShutdownWait(p) ==
    /\ Running
    /\ th[p].pc = "sd151"
    /\ StopChanClosed(srv)
    /\ wm' = [wm EXCEPT !.readers = @ \ {p}]
    /\ th' = [th EXCEPT ![p] = [pc |-> AfterShutdown(p), ret |-> "waited"]]
    /\ UNCHANGED <<srv, hook, events, svc, obs>>
    /\ UNCHANGED hvars

\* ------------------------------------------------------- webhook calls
\* A variant of HandlerStatus that accepts every call.
HandlerStatus_alwaysAccepted(err) == StatusAccepted

\* Webhook.handler: the status written for what fn returned.
HandlerStatus(err) == IF err # NoErr THEN StatusBadRequest ELSE StatusAccepted

\* A variant of webhookHandler_ret that returns the error of EmitEvent.
webhookHandler_ret_emitError(emitErr) == emitErr

\* webhookHandler after EmitEvent: the error is logged and nil is returned.
webhookHandler_ret(emitErr) == NoErr

\* The listening server accepts a POST on the endpoint and runs the handler
\* for it on a goroutine of its own.
Arrive(b) ==
    /\ Running
    /\ srv.state = "listening"
    /\ Len(hook) < MaxCalls
    /\ hook' = Append(hook, [body |-> b, pc |-> "fn", out |-> Nil, fnErr |-> NoErr,
                             status |-> 0, header |-> "", written |-> "",
                             conn |-> "open", emits |-> 0])
    /\ UNCHANGED <<wm, srv, th, events, svc, obs>>
    /\ UNCHANGED hvars

\* webhookHandler: json.NewDecoder(req.Body).Decode(&out); a body that does
\* not decode makes it return the payload error.
HookDecode(c) ==
    /\ Running
    /\ c \in DOMAIN hook
    /\ hook[c].pc = "fn"
    /\ LET d == DecodeRequest(hook[c].body)
       IN  hook' = [hook EXCEPT ![c] =
                      IF d.err # NoErr
                      THEN [@ EXCEPT !.pc = "respond", !.fnErr = PayloadError]
                      ELSE [@ EXCEPT !.pc = "emit", !.out = d.val]]
    /\ UNCHANGED <<wm, srv, th, events, svc, obs>>
    /\ UNCHANGED hvars

\* webhookHandler: s.mesgService.EmitEvent("onRequest", webhookResponse{...});
\* its error is logged; the handler returns nil.
HookEmit(c) ==
    /\ Running
    /\ c \in DOMAIN hook
    /\ hook[c].pc = "emit"
    /\ \E err \in EmitErrs : \E now \in UnixTimes :
          /\ events' = Append(events,
                 [name |-> "onRequest",
                  data |-> [Date |-> now, ID |-> Len(events) + 1, Body |-> hook[c].out],
                  call |-> c, err |-> err])
          /\ obs' = [obs EXCEPT !.logged = IF err # NoErr THEN @ + 1 ELSE @]
          /\ hook' = [hook EXCEPT ![c].pc = "respond", ![c].emits = @ + 1,
                                  ![c].fnErr = webhookHandler_ret(err)]
    /\ UNCHANGED <<wm, srv, th, svc>>
    /\ UNCHANGED hvars

\* Webhook.handler with what fn returned: 400, the JSON content type and the
\* encoded error, or 202.  A write on a closed connection fails and is logged.
HookRespond(c) ==
    /\ Running
    /\ c \in DOMAIN hook
    /\ hook[c].pc = "respond"
    /\ IF HandlerStatus(hook[c].fnErr) = StatusBadRequest
       THEN /\ hook' = [hook EXCEPT
                   ![c].pc = "done",
                   ![c].header = "application/json",
                   ![c].status = StatusBadRequest,
                   ![c].written = IF hook[c].conn = "open"
                                  THEN MarshalError(hook[c].fnErr) ELSE ""]
            /\ obs' = [obs EXCEPT !.logged =
                          IF hook[c].conn = "open" THEN @ ELSE @ + 1]
       ELSE /\ hook' = [hook EXCEPT ![c].pc = "done",
                                    ![c].status = HandlerStatus(hook[c].fnErr)]
            /\ obs' = obs
    /\ UNCHANGED <<wm, srv, th, events, svc>>
    /\ UNCHANGED hvars

WebNext ==
    \/ CallStartWebhook
    \/ SetWebhook
    \/ LockMw
    \/ SetServer
    \/ UnlockMw
    \/ ListenAndServe
    \/ HandleInterrupt
    \/ Stopped
    \/ ServeReturn
    \/ \E p \in Callers :
          \/ WebhookAddrEnter(p)
          \/ WebhookAddr(p)
          \/ ShutdownWebhookEnter(p)
          \/ ShutdownWebhook(p)
          \/ ShutdownWait(p)
    \/ \E b \in WebhookBodies : Arrive(b)
    \/ \E c \in 1..MaxCalls :
          \/ HookDecode(c)
          \/ HookEmit(c)
          \/ HookRespond(c)

\* A Webman on which StartWebhook, WebhookAddr and ShutdownWebhook are called
\* from goroutines of their own, and the calls its webhook receives.
WebSpec == InitOf(0) /\ [][WebNext]_vars

\* Every goroutine that can run is eventually run, and the grace period of a
\* stopping server elapses.
WebLive == InitOf(0) /\ [][WebNext]_vars /\ WF_vars(WebNext)

\* ------------------------------------------------------- Service.Start
\* Start: go s.listenTasks()
GoListenTasks ==
    /\ Running
    /\ th["Start"].pc = "idle"
    /\ th' = [th EXCEPT !["Start"].pc = "go2", !["listenTasks"].pc = "listen"]
    /\ UNCHANGED <<wm, srv, hook, events, svc, obs>>
    /\ UNCHANGED hvars

\* Start: go s.startWebhook(), which calls s.webman.StartWebhook.
GoStartWebhook ==
    /\ Running
    /\ th["Start"].pc = "go2"
    /\ th' = [th EXCEPT !["Start"].pc = "recv", !["startWebhook"].pc = "sw86"]
    /\ obs' = [obs EXCEPT !.starts = @ + 1]
    /\ UNCHANGED <<wm, srv, hook, events, svc>>
    /\ UNCHANGED hvars

\* listenTasks: ListenTasks returns.  It fails when the connection to the
\* runtime does; once the connection is closed it returns, with or without
\* an error.  An error goes to s.errC.
ListenTasksReturn ==
    /\ Running
    /\ th["listenTasks"].pc = "listen"
    /\ \E err \in (IF svc.mesg = "closed" THEN {NoErr} ELSE {}) \cup ListenErrs :
          th' = [th EXCEPT !["listenTasks"] =
                    [pc |-> IF Reports(err) THEN "send" ELSE "done", ret |-> err]]
    /\ UNCHANGED <<wm, srv, hook, events, svc, obs>>
    /\ UNCHANGED hvars

\* startWebhook: StartWebhook has returned; an error goes to s.errC.
StartWebhookReturned ==
    /\ Running
    /\ th["startWebhook"].pc = "swret"
    /\ th' = [th EXCEPT !["startWebhook"].pc =
                 IF Reports(th["startWebhook"].ret) THEN "send" ELSE "done"]
    /\ UNCHANGED <<wm, srv, hook, events, svc, obs>>
    /\ UNCHANGED hvars

\* s.errC <- err meeting err := <-s.errC in Start: errC holds nothing, the
\* sender waits for the receiver.
StartRecv(q) ==
    /\ Running
    /\ th["Start"].pc = "recv"
    /\ th[q].pc = "send"
    /\ svc' = [svc EXCEPT !.recvd = Append(@, [from |-> q, err |-> th[q].ret])]
    /\ th' = [th EXCEPT !["Start"] = [pc |-> "close", ret |-> th[q].ret],
                        ![q].pc = "done"]
    /\ UNCHANGED <<wm, srv, hook, events, obs>>
    /\ UNCHANGED hvars

\* main: a termination signal arrives and main calls srv.Close().
Signal ==
    /\ Running
    /\ th["main"].pc = "idle"
    /\ th["Start"].pc # "idle"
    /\ th' = [th EXCEPT !["main"].pc = "close"]
    /\ UNCHANGED <<wm, srv, hook, events, svc, obs>>
    /\ UNCHANGED hvars

\* Close: s.mesgService.Close(); return nil -- and Start returns the error it
\* received.
MesgClose(p) ==
    /\ Running
    /\ p \in Closers
    /\ th[p].pc = "mesgClose"
    /\ svc' = [svc EXCEPT !.mesg = "closed",
                          !.closes = Append(@, <<p, "mesgService.Close">>)]
    /\ th' = [th EXCEPT ![p] = [pc  |-> "returned",
                                ret |-> IF p = "Start" THEN svc.recvd[1].err ELSE NoErr]]
    /\ UNCHANGED <<wm, srv, hook, events, obs>>
    /\ UNCHANGED hvars

SvcNext ==
    \/ GoListenTasks
    \/ GoStartWebhook
    \/ ListenTasksReturn
    \/ SetWebhook
    \/ LockMw
    \/ SetServer
    \/ UnlockMw
    \/ ListenAndServe
    \/ HandleInterrupt
    \/ Stopped
    \/ ServeReturn
    \/ StartWebhookReturned
    \/ Signal
    \/ \E q \in {"listenTasks", "startWebhook"} : StartRecv(q)
    \/ \E p \in Closers :
          \/ ShutdownWebhookEnter(p)
          \/ ShutdownWebhook(p)
          \/ ShutdownWait(p)
          \/ MesgClose(p)

\* Service.Start with its two goroutines, and main closing the service when
\* a termination signal arrives.
SvcSpec == InitOf(0) /\ [][SvcNext]_vars

\* ------------------------------------------------- vocabulary of the claims
IsExecute(t) == task[t].TaskKey = "execute"
IsBatch(t) == task[t].TaskKey = "batchExecute"
Decodable(t) == task[t].InputData.json
\* The requests of the task's input, as written by the caller.
InputBatch(t) == task[t].InputData.Batch
InputURLs(t) == {InputBatch(t)[k].URL : k \in DOMAIN InputBatch(t)}
\* Handler t has called Reply with kind k.
Replied(t, k) == \E n \in DOMAIN replies[t] : replies[t][n].key = k
\* The maps of the batch reply handler t sent.
Sent(t) == replies[t][1].data.Batch
\* Activation g of handler t has handed its outcome to the handler.
Delivered(t, g) ==
    /\ g \in DOMAIN gor[t]
    /\ gor[t][g].pc = "done"
    /\ \E n \in DOMAIN recvd[t] : recvd[t][n] = g
\* Post returned an error to activation g / returned without one.
Failed(t, g) == gor[t][g].ret # <<>> /\ gor[t][g].ret[1].err # NoErr
Succeeded(t, g) == gor[t][g].ret # <<>> /\ gor[t][g].ret[1].err = NoErr
\* The decimal text of the status codes the relay returns, written out.
Decimal(n) == CASE n = 0 -> "0" [] n = 200 -> "200" [] n = 500 -> "500"
\* The entry a map holds for the outcome of activation g.
SuccessOf(t, g) ==
    [StatusCode |-> Decimal(gor[t][g].ret[1].statusCode), Body |-> gor[t][g].ret[1].out]
ErrorOf(t, g) == [Message |-> gor[t][g].ret[1].err]
\* The position of activation g among the outcomes received (0: not received).
RecvPos(t, g) ==
    IF \E n \in DOMAIN recvd[t] : recvd[t][n] = g
    THEN CHOOSE n \in DOMAIN recvd[t] : recvd[t][n] = g
    ELSE 0

\* C1: batchExecuteHandler sends its "batch" reply only after one outcome has
\* been received for every request of the input batch: whenever the reply has
\* been sent, an activation was launched for every request and each of them
\* has delivered its outcome, each exactly once.
C1_ReplyOnlyAfterAllOutcomes ==
    \A t \in DOMAIN task :
        (IsBatch(t) /\ Replied(t, "batch")) =>
            /\ Len(gor[t]) = Len(InputBatch(t))
            /\ \A g \in DOMAIN InputBatch(t) : Delivered(t, g)
            /\ Len(recvd[t]) = Len(InputBatch(t))
            /\ i[t] = Len(InputBatch(t))

\* A batch of at least two requests whose reply was sent after the outcomes
\* arrived in an order other than the launch order.
C1_Witness ==
    \E t \in DOMAIN task :
        /\ IsBatch(t) /\ Replied(t, "batch")
        /\ Len(InputBatch(t)) >= 2
        /\ recvd[t][1] # 1

\* Every handler has returned and every activation it launched has ended.
AllReturned ==
    \A t \in DOMAIN task :
        /\ pc[t] = "done"
        /\ Len(replies[t]) >= 1
        /\ Len(gor[t]) = Len(InputBatch(t))
        /\ \A g \in DOMAIN gor[t] : gor[t][g].pc = "done"

\* C2: when every Post call returns, batchExecuteHandler eventually sends its
\* reply and every goroutine it launched ends: no doPOSTRequest stays blocked
\* on the response channel and the handler never waits for an outcome that is
\* not sent.
C2_BatchTerminates == <>[]AllReturned

\* A batch of at least two requests that has returned, one of whose calls
\* ended by the client's timeout.
C2_Witness ==
    \E t \in DOMAIN task :
        /\ IsBatch(t) /\ Len(InputBatch(t)) >= 2 /\ AllReturned
        /\ \E g \in DOMAIN gor[t] :
              gor[t][g].ret = <<[statusCode |-> 0, err |-> "context deadline exceeded",
                                 out |-> Nil]>>

\* C3: no failing call aborts the batch: a decodable batch whose handler has
\* returned has sent the "batch" reply, and the keys of successes together
\* with the keys of errors are exactly the URLs of the input batch.
C3_EveryURLReported ==
    \A t \in DOMAIN task :
        (IsBatch(t) /\ Decodable(t)) =>
            /\ pc[t] = "done" => Replied(t, "batch")
            /\ Replied(t, "batch") =>
                  (DOMAIN Sent(t).Successes) \cup (DOMAIN Sent(t).Errors) = InputURLs(t)

\* A batch reply sent with some calls failed and some succeeded.
C3_Witness ==
    \E t \in DOMAIN task :
        /\ IsBatch(t) /\ Replied(t, "batch")
        /\ \E g, h \in DOMAIN gor[t] :
              /\ Failed(t, g) /\ Succeeded(t, h)
              /\ InputBatch(t)[g].URL # InputBatch(t)[h].URL

\* The URLs of the input batch are pairwise distinct.
DistinctURLs(t) ==
    \A a, b \in DOMAIN InputBatch(t) :
        a # b => InputBatch(t)[a].URL # InputBatch(t)[b].URL

Occurrences(t, u) == {g \in DOMAIN InputBatch(t) : InputBatch(t)[g].URL = u}
\* The URLs of which one call failed and another succeeded.
MixedURLs(t) ==
    {u \in InputURLs(t) :
        \E g, h \in Occurrences(t, u) : Failed(t, g) /\ Succeeded(t, h)}

\* C5, as claimed: for every non-empty batch, repeated URLs included, a URL
\* is in at most one of the two maps, and the entries of successes and of
\* errors together number the distinct URLs of the input.
C5_Original ==
    \A t \in DOMAIN task :
        (IsBatch(t) /\ Replied(t, "batch") /\ Len(InputBatch(t)) > 0) =>
            /\ (DOMAIN Sent(t).Successes) \cap (DOMAIN Sent(t).Errors) = {}
            /\ Cardinality(DOMAIN Sent(t).Successes)
                 + Cardinality(DOMAIN Sent(t).Errors) = Cardinality(InputURLs(t))

\* C5, amended: for every non-empty batch a URL is in both maps exactly when
\* it occurs more than once in the input and one of its calls failed while
\* another succeeded, and in exactly one map otherwise; the entries of
\* successes and of errors together number the distinct URLs plus the URLs of
\* mixed outcome, which is the number of distinct URLs when the URLs are
\* pairwise distinct.
C5_OneMapUnlessMixed ==
    \A t \in DOMAIN task :
        (IsBatch(t) /\ Replied(t, "batch") /\ Len(InputBatch(t)) > 0) =>
            /\ (DOMAIN Sent(t).Successes) \cap (DOMAIN Sent(t).Errors) = MixedURLs(t)
            /\ (DOMAIN Sent(t).Successes) \cup (DOMAIN Sent(t).Errors) = InputURLs(t)
            /\ \A u \in MixedURLs(t) : Cardinality(Occurrences(t, u)) > 1
            /\ Cardinality(DOMAIN Sent(t).Successes)
                 + Cardinality(DOMAIN Sent(t).Errors)
                 = Cardinality(InputURLs(t)) + Cardinality(MixedURLs(t))
            /\ DistinctURLs(t) =>
                  Cardinality(DOMAIN Sent(t).Successes)
                    + Cardinality(DOMAIN Sent(t).Errors) = Cardinality(InputURLs(t))

\* A batch reply in which a repeated URL is a key of both maps.
C5_Witness ==
    \E t \in DOMAIN task :
        /\ IsBatch(t) /\ Replied(t, "batch")
        /\ \E u \in InputURLs(t) :
              /\ Cardinality(Occurrences(t, u)) > 1
              /\ u \in DOMAIN Sent(t).Successes
              /\ u \in DOMAIN Sent(t).Errors

\* Of a non-empty set of received activations, the one received last.
LastReceived(t, G) == CHOOSE g \in G : \A h \in G : RecvPos(t, h) <= RecvPos(t, g)

\* C6: a URL that occurs k times in the input batch gets k relay calls, one
\* per occurrence, and the entry a map finally holds for it is that of the
\* occurrence whose outcome was received last among those that went to that
\* map, whichever occurrence that is.
C6_LastOutcomeWins ==
    \A t \in DOMAIN task :
        (IsBatch(t) /\ Replied(t, "batch")) =>
            \A u \in InputURLs(t) :
                LET ok  == {g \in Occurrences(t, u) : Succeeded(t, g)}
                    bad == {g \in Occurrences(t, u) : Failed(t, g)}
                IN  /\ \A g \in Occurrences(t, u) :
                          gor[t][g].calls = <<[url |-> u, data |-> InputBatch(t)[g].Body]>>
                    /\ Cardinality({g \in DOMAIN gor[t] :
                                      \E c \in DOMAIN gor[t][g].calls :
                                          gor[t][g].calls[c].url = u})
                         = Cardinality(Occurrences(t, u))
                    /\ ok # {} =>
                          Sent(t).Successes[u] = SuccessOf(t, LastReceived(t, ok))
                    /\ bad # {} =>
                          Sent(t).Errors[u] = ErrorOf(t, LastReceived(t, bad))

\* A URL given twice, both calls answered, differently; the entry sent is
\* that of the occurrence launched first, which was received last.
C6_Witness ==
    \E t \in DOMAIN task :
        /\ IsBatch(t) /\ Replied(t, "batch")
        /\ \E g, h \in DOMAIN gor[t] :
              /\ g < h
              /\ InputBatch(t)[g].URL = InputBatch(t)[h].URL
              /\ Succeeded(t, g) /\ Succeeded(t, h)
              /\ SuccessOf(t, g) # SuccessOf(t, h)
              /\ Sent(t).Successes[InputBatch(t)[g].URL] = SuccessOf(t, g)

\* The same, the entry sent being that of the occurrence launched last.
C6_WitnessLaterWins ==
    \E t \in DOMAIN task :
        /\ IsBatch(t) /\ Replied(t, "batch")
        /\ \E g, h \in DOMAIN gor[t] :
              /\ g < h
              /\ InputBatch(t)[g].URL = InputBatch(t)[h].URL
              /\ Succeeded(t, g) /\ Succeeded(t, h)
              /\ SuccessOf(t, g) # SuccessOf(t, h)
              /\ Sent(t).Successes[InputBatch(t)[g].URL] = SuccessOf(t, h)

\* C7: batchExecute with an empty input sequence launches nothing and makes
\* no Post call, never stands at a channel operation, and replies "batch"
\* with both maps empty.
C7_EmptyBatch ==
    \A t \in DOMAIN task :
        (IsBatch(t) /\ Decodable(t) /\ Len(InputBatch(t)) = 0) =>
            /\ gor[t] = <<>>
            /\ pc[t] \in {"get", "reply", "done"}
            /\ pc[t] = "done" =>
                  /\ Len(replies[t]) = 1
                  /\ replies[t][1].key = "batch"
                  /\ DOMAIN Sent(t).Successes = {}
                  /\ DOMAIN Sent(t).Errors = {}

\* An empty batch whose handler has returned.
C7_Witness ==
    \E t \in DOMAIN task :
        /\ IsBatch(t) /\ Decodable(t) /\ Len(InputBatch(t)) = 0
        /\ pc[t] = "done"
        /\ Replied(t, "batch")

C9_DecodeFailure ==
    \A t \in DOMAIN task :
        ~Decodable(t) =>
            /\ gor[t] = <<>>
            /\ pc[t] \in {"get", "reply", "done"}
            /\ ~Replied(t, "success") /\ ~Replied(t, "batch")
            /\ pc[t] = "done" =>
                  /\ Len(replies[t]) = 1
                  /\ replies[t][1].key = "error"
                  /\ replies[t][1].data.Message =
                       IF IsExecute(t)
                       THEN "err while decoding input data: invalid character"
                       ELSE "err while decoding batch input data: invalid character"

\* A batchExecute of undecodable input whose handler has returned.
C9_Witness ==
    \E t \in DOMAIN task :
        /\ ~Decodable(t) /\ IsBatch(t)
        /\ pc[t] = "done"
        /\ Replied(t, "error")

\* C10: a handler that has returned has called Reply exactly once, on every
\* path, and a Reply that fails is logged and not tried again: the handler
\* returns after that single call.
C10_ReplyExactlyOnce ==
    \A t \in DOMAIN task :
        /\ Len(replies[t]) <= 1
        /\ pc[t] = "done" <=> Len(replies[t]) = 1
        /\ logged[t] = Cardinality({n \in DOMAIN replies[t] : replies[t][n].err # NoErr})

\* An execute whose relay call failed and whose Reply failed too, returned.
C10_Witness ==
    \E t \in DOMAIN task :
        /\ IsExecute(t) /\ Decodable(t) /\ pc[t] = "done"
        /\ Failed(t, 1)
        /\ replies[t][1].err # NoErr
        /\ logged[t] = 1

\* C11: no outbound call is repeated: every request of execute and every
\* occurrence of a request in a batch gets one activation, which calls Post
\* once, makes one round trip and yields one outcome, received once, whether
\* the call fails or not.
C11_OneCallOneOutcome ==
    \A t \in DOMAIN task :
        /\ \A g \in DOMAIN gor[t] :
              /\ Len(gor[t][g].calls) <= 1
              /\ Len(gor[t][g].ret) <= 1
              /\ gor[t][g].trips <= 1
              /\ gor[t][g].pc \in {"send", "done"} =>
                    /\ gor[t][g].calls = <<[url  |-> InputBatch(t)[g].URL,
                                            data |-> InputBatch(t)[g].Body]>>
                    /\ Len(gor[t][g].ret) = 1
                    /\ gor[t][g].trips = 1
              /\ Cardinality({n \in DOMAIN recvd[t] : recvd[t][n] = g})
                   = IF gor[t][g].pc = "done" /\ responseC[t] = <<>> THEN 1 ELSE 0
        /\ Len(gor[t]) <= Len(InputBatch(t))
        /\ (pc[t] = "done" /\ Decodable(t)) => Len(gor[t]) = Len(InputBatch(t))

\* A batch naming one URL twice, returned, one call failed and one answered.
C11_Witness ==
    \E t \in DOMAIN task :
        /\ IsBatch(t) /\ pc[t] = "done"
        /\ \E g, h \in DOMAIN gor[t] :
              /\ g # h
              /\ InputBatch(t)[g].URL = InputBatch(t)[h].URL
              /\ Failed(t, g) /\ Succeeded(t, h)
              /\ gor[t][g].trips = 1 /\ gor[t][h].trips = 1

\* C19: every outcome doPOSTRequest builds carries the URL of its request and
\* has one meaningful side: after an error from Post the error is set and the
\* status code is empty; after no error the error is unset and the status code
\* is the decimal text of the status returned, a non-2xx status included.
C19_OutcomeOneSided ==
    \A t \in DOMAIN task : \A g \in DOMAIN gor[t] :
        /\ gor[t][g].resp.URL = InputBatch(t)[g].URL
        /\ Failed(t, g) =>
              /\ gor[t][g].resp.Error = gor[t][g].ret[1].err
              /\ gor[t][g].resp.Error # NoErr
              /\ gor[t][g].resp.StatusCode = ""
        /\ Succeeded(t, g) =>
              /\ gor[t][g].resp.Error = NoErr
              /\ gor[t][g].resp.StatusCode = Decimal(gor[t][g].ret[1].statusCode)
              /\ gor[t][g].resp.Body = gor[t][g].ret[1].out
        /\ gor[t][g].ret = <<>> => gor[t][g].resp = response(InputBatch(t)[g].URL)

\* One invocation holds an outcome of a status 500 without error and an outcome
\* of a response whose body did not decode, status 200 returned with the error.
C19_Witness ==
    \E t \in DOMAIN task : \E g, h \in DOMAIN gor[t] :
        /\ Succeeded(t, g) /\ gor[t][g].ret[1].statusCode = 500
        /\ gor[t][g].resp.StatusCode = "500"
        /\ Failed(t, h) /\ gor[t][h].ret[1].statusCode = 200
        /\ gor[t][h].resp.StatusCode = ""

\* Activation g of handler t is not kept from its next step by another call:
\* it may enter Post, its Post may return, and it may hand its outcome over
\* once the handler is at the channel.
NotHeldBack(t, g) ==
    /\ gor[t][g].pc = "start" => ENABLED PostCall(t, g)
    /\ gor[t][g].pc = "post" => ENABLED PostReturn(t, g)
    /\ (gor[t][g].pc = "send" /\ pc[ChanOf(t)] = "recv") => ENABLED Handover(t, g)
\* Every call of a batch other than the first has handed over its outcome.
SiblingsDelivered ==
    \A t \in DOMAIN task :
        (IsBatch(t) /\ Decodable(t)) =>
            \A g \in 2..Len(InputBatch(t)) : Delivered(t, g)

\* C12: when one call of a batch is slow or never returns, every sibling call
\* is still issued, returns and hands its outcome to the handler, so that its
\* goroutine ended; no call waits for another call of the batch.
C12_SiblingsComplete ==
    /\ [](\A t \in DOMAIN task : IsBatch(t) =>
             \A g \in DOMAIN gor[t] : NotHeldBack(t, g))
    /\ <>[]SiblingsDelivered

\* The first call of a batch of three is still in Post, both siblings have
\* handed over their outcomes and ended, and the handler waits without a reply.
C12_Witness ==
    \E t \in DOMAIN task :
        /\ IsBatch(t) /\ Len(InputBatch(t)) = 3 /\ Len(gor[t]) = 3
        /\ gor[t][1].pc = "post"
        /\ Delivered(t, 2) /\ Delivered(t, 3)
        /\ pc[t] = "recv" /\ replies[t] = <<>>

\* The URLs of the outcomes handler t has written into its result so far.
Written(t) == DOMAIN hresp[t].Successes \cup DOMAIN hresp[t].Errors

\* C20: invocations handled at the same time are isolated: the outcome of a
\* call launched for one invocation is received by that invocation alone and
\* written into its result alone, and each batch reply holds the URLs of its
\* own input, no other.
C20_InvocationsIsolated ==
    \A t \in DOMAIN task :
        /\ \A g \in DOMAIN gor[t] : gor[t][g].to \in {0, t}
        /\ \A n \in DOMAIN recvd[t] : Delivered(t, recvd[t][n])
        /\ \A n \in DOMAIN responseC[t] :
              responseC[t][n].resp.URL \in InputURLs(t)
        /\ Decodable(t) => Written(t) \subseteq InputURLs(t)
        /\ resp[t].URL \in {""} \cup InputURLs(t)
        /\ (IsBatch(t) /\ Decodable(t) /\ Replied(t, "batch")) =>
              DOMAIN Sent(t).Successes \cup DOMAIN Sent(t).Errors = InputURLs(t)

\* Two batches with no URL in common in progress together: one has replied
\* with its own URLs while the other has received part of its outcomes.
C20_Witness ==
    \E t, u \in DOMAIN task :
        /\ t # u /\ IsBatch(t) /\ IsBatch(u)
        /\ InputURLs(t) # {} /\ InputURLs(u) # {}
        /\ InputURLs(t) \cap InputURLs(u) = {}
        /\ Replied(t, "batch")
        /\ DOMAIN Sent(t).Successes \cup DOMAIN Sent(t).Errors = InputURLs(t)
        /\ Len(InputBatch(u)) = 2 /\ i[u] = 1 /\ pc[u] = "recv"
        /\ Written(u) # {}

\* The body of webhook call c decodes as JSON.
BodyDecodes(c) == DecodeRequest(hook[c].body).err = NoErr
\* The calls of EmitEvent made for webhook call c.
EmitsOf(c) == {e \in DOMAIN events : events[e].call = c}

\* C13: a webhook call whose body does not decode as JSON publishes no event,
\* the handler returns the error "json data payload expected", and the
\* response is 400 with the JSON error body carrying that message, never 202.
C13_UndecodableRejected ==
    \A c \in DOMAIN hook :
        ~BodyDecodes(c) =>
            /\ hook[c].emits = 0 /\ EmitsOf(c) = {}
            /\ hook[c].pc # "emit"
            /\ hook[c].pc \in {"respond", "done"} =>
                  hook[c].fnErr = "json data payload expected"
            /\ hook[c].status # 202
            /\ hook[c].pc = "done" =>
                  /\ hook[c].status = 400
                  /\ hook[c].header = "application/json"
                  /\ hook[c].conn = "open" =>
                        hook[c].written =
                            "{\"error\":{\"message\":\"json data payload expected\"}}"

\* A call with the body "not json" answered 400 with the error body, while an
\* event of another call was published.
C13_Witness ==
    \E c \in DOMAIN hook :
        /\ hook[c].body = "not json" /\ hook[c].pc = "done"
        /\ hook[c].status = 400
        /\ hook[c].written = "{\"error\":{\"message\":\"json data payload expected\"}}"
        /\ EmitsOf(c) = {} /\ events # <<>>

\* C14: a webhook call whose body decodes as JSON causes one
\* EmitEvent("onRequest", envelope) with the decoded payload as body, and the
\* response is 202 whether EmitEvent succeeded or failed.
C14_DecodableAccepted ==
    \A c \in DOMAIN hook :
        BodyDecodes(c) =>
            /\ Cardinality(EmitsOf(c)) =
                  IF hook[c].pc \in {"respond", "done"} THEN 1 ELSE 0
            /\ hook[c].emits = Cardinality(EmitsOf(c))
            /\ \A e \in EmitsOf(c) :
                  /\ events[e].name = "onRequest"
                  /\ events[e].data.Body = DecodeRequest(hook[c].body).val
                  /\ events[e].data.Date > 0
                  /\ \A f \in DOMAIN events :
                        events[f].data.ID = events[e].data.ID => f = e
            /\ hook[c].status \in {0, 202}
            /\ hook[c].pc = "done" => hook[c].status = 202 /\ hook[c].written = ""

\* A call with the body {"body":"test"} answered 202 although its EmitEvent
\* failed and was logged.
C14_Witness ==
    \E c \in DOMAIN hook : \E e \in EmitsOf(c) :
        /\ hook[c].body = "{\"body\":\"test\"}" /\ hook[c].pc = "done"
        /\ events[e].data.Body = "map[body:test]"
        /\ events[e].err # NoErr /\ obs.logged > 0
        /\ hook[c].status = 202

\* C15: the lifecycle fields are guarded by the lock: every write of webhook
\* and of server is made with the lock held, and no WebhookAddr or
\* ShutdownWebhook call finds a webhook whose server is unset or follows a
\* nil webhook or server.
C15_LifecycleGuarded ==
    /\ \A w \in obs.writes : w.locked
    /\ ~obs.partial
    /\ obs.fault = "none"

\* C18: ShutdownWebhook on a listening server takes it through stopping to
\* stopped: ShutdownWebhook returns only once the server has stopped, which
\* it does when every call in flight is answered or the grace period has
\* elapsed; StartWebhook then returns nil; the server never listens again.
C18_StopsThenReturns ==
    /\ [](\A p \in Procs : th[p].ret = "waited" => srv.state = "stopped")
    /\ []((th["startWebhook"].pc = "swret" /\ srv.state # "failed") =>
             (srv.state = "stopped" /\ th["startWebhook"].ret = NoErr))
    /\ [][/\ srv.state = "listening" => srv'.state \in {"listening", "stopping"}
          /\ srv.state = "stopping" => srv'.state \in {"stopping", "stopped"}
          /\ srv.state = "stopped" => srv'.state = "stopped"
          /\ (srv.state # "stopped" /\ srv'.state = "stopped") =>
                (Drained \/ srv'.how = "timeout")
          /\ srv.state # "listening" => Len(hook') = Len(hook)]_vars
    /\ \A p \in Callers :
          (th[p].pc = "sd151" /\ srv.state = "listening")
             ~> (/\ srv.state = "stopped"
                 /\ th[p].pc = "done" /\ th[p].ret = "waited"
                 /\ th["startWebhook"].pc = "swret"
                 /\ th["startWebhook"].ret = NoErr)

\* ShutdownWebhook has returned from a server that stopped on the grace
\* period with a call still unanswered, and StartWebhook has returned nil.
C18_Witness ==
    \E p \in Callers :
        /\ th[p].pc = "done" /\ th[p].ret = "waited"
        /\ srv.state = "stopped" /\ srv.how = "timeout"
        /\ \E c \in DOMAIN hook : hook[c].pc # "done" /\ hook[c].conn = "closed"
        /\ th["startWebhook"].pc = "swret" /\ th["startWebhook"].ret = NoErr

\* Start has received the error of a failed bind from startWebhook.
BindFailureReceived ==
    /\ srv.state = "failed"
    /\ svc.recvd # <<>>
    /\ svc.recvd[1] = [from |-> "startWebhook", err |-> "address already in use"]

\* C16: when the listen address cannot be bound, Start returns that error
\* instead of blocking: having received it, Start is never left waiting on
\* the StopChan of the server that never served, a channel that nothing
\* closes; and StartWebhook is invoked once.
C16_BindFailureReported ==
    /\ obs.starts <= 1
    /\ (BindFailureReceived /\ th["Start"].pc = "sd151") => StopChanClosed(srv)
    /\ (BindFailureReceived /\ th["Start"].pc = "returned") =>
          th["Start"].ret = "address already in use"

\* The steps of Close that goroutine p has made, in order.
ClosesOf(p) == SelectSeq(svc.closes, LAMBDA e : e[1] = p)

StartYetToReceive == th["Start"].pc \in {"idle", "go2", "recv"}

\* C21: every error listenTasks or startWebhook sends on errC is received: no
\* goroutine stands at the send on errC once Start has passed its receive,
\* when both fail or when one fails after Start went on.
C21_EveryErrorReceived ==
    \A q \in {"listenTasks", "startWebhook"} :
        th[q].pc = "send" => StartYetToReceive

\* C22: on a Webman on which StartWebhook was never called the lifecycle
\* accessors are safe: ShutdownWebhook returns at once without effect,
\* WebhookAddr returns the empty string, and neither faults nor blocks.
C22_AccessorsSafeBeforeStart ==
    th["startWebhook"].pc = "idle" =>
        /\ obs.fault = "none"
        /\ srv = [state |-> "new", interrupt |-> FALSE, stopChan |-> "open",
                  how |-> "none"]
        /\ \A p \in Callers :
              /\ th[p].pc # "sd151"
              /\ th[p].pc = "done" => th[p].ret \in {"", "no webhook"}
              /\ th[p].pc = "idle" =>
                    (ENABLED WebhookAddrEnter(p) /\ ENABLED ShutdownWebhookEnter(p))

====
